---------------------------- MODULE Spec2Model ----------------------------
(***************************************************************************)
(* Conversation memory and session store of the character chatbot backend. *)
(*                                                                         *)
(*   backend/services/session_manager.py   SessionManager (SQLite store)   *)
(*   backend/services/memory_manager.py    MemoryManager (context window)  *)
(*   backend/services/vllm_client.py       generate_response (one turn)    *)
(*                                                                         *)
(* The two SQLite tables are the variables sessions and messages.  Every   *)
(* call of the Python API is one action; its return value (or the error    *)
(* it raised) is left in the variable ret.                                 *)
(***************************************************************************)
EXTENDS Integers, Sequences, FiniteSets, TLC

(***************************************************************************)
(* Bounds of the model.                                                    *)
(***************************************************************************)
MaxSessions == 2        \* uuid4 ids handed out by create_session
MaxMessages == 3        \* rows inserted by calls that run to completion
MaxClock == 1           \* largest reading of datetime.now()
MaxCalls == 2           \* calls made as concurrent requests

\* <<MAX_RECENT_MESSAGES, SUMMARIZE_THRESHOLD>> settings explored: the window
\* equal to the threshold, below it (as the defaults 10 and 20 are) and,
\* since nothing enforces the relation, above it.
SettingsExplored == {<<2, 2>>, <<2, 3>>, <<3, 2>>}

(***************************************************************************)
(* Values.                                                                 *)
(***************************************************************************)
\* Optional[T] and nullable columns: None / NULL is the empty tuple, a value
\* v is <<v>>.
None == <<>>
Some(v) == <<v>>

\* Python truthiness of an Optional[str]: None and "" are falsy.
Truthy(x) == x # None /\ x[1] # ""

\* str(uuid.uuid4()): the n-th id generated.  Ids are never repeated.
uuid4(n) == "uuid-" \o ToString(n)

\* Text the Summarizer can return after .strip(): possibly empty.
SummaryTexts == {"", "sumA", "sumB"}

VARIABLES
    sessions,               \* table sessions: id -> [created_at, last_message_at, summary]
    messages,               \* table messages, in rowid order
    seq,                    \* sqlite_sequence of messages (AUTOINCREMENT)
    issued,                 \* number of ids uuid4 has generated
    clock,                  \* last reading of datetime.now()
    max_recent_messages,    \* settings.MAX_RECENT_MESSAGES
    summarize_threshold,    \* settings.SUMMARIZE_THRESHOLD
    ret,                    \* the last call: its arguments and what it returned
    calls                   \* calls made as concurrent requests, suspended
                            \* at an await or returned: their local values

vars == <<sessions, messages, seq, issued, clock,
          max_recent_messages, summarize_threshold, ret, calls>>


(***************************************************************************)
(* The store as a value, so that a handler making several store calls is   *)
(* the composition of their effects.                                       *)
(***************************************************************************)
DB == [sessions |-> sessions, messages |-> messages, seq |-> seq]

\* Rows of table messages WHERE session_id = ?, in rowid order.
RowsOf(db, session_id) ==
    SelectSeq(db.messages, LAMBDA m : m.session_id = session_id)

\* MessageInfo(role=row["role"], content=row["content"], ...): the rowid and
\* the session id are not part of what a reader gets back.
MessageInfo(row) ==
    [role |-> row.role, content |-> row.content,
     emotion_tag |-> row.emotion_tag, saturation_tag |-> row.saturation_tag,
     created_at |-> row.created_at]

MessageInfos(rows) == [i \in 1..Len(rows) |-> MessageInfo(rows[i])]

\* rows without its i-th element.
RemoveAt(rows, i) ==
    [j \in 1..(Len(rows) - 1) |-> IF j < i THEN rows[j] ELSE rows[j + 1]]

RECURSIVE OrderByCreatedAt(_, _)
\* ORDER BY created_at ASC | DESC: the sort key is created_at alone, so SQL
\* leaves the relative order of rows with equal created_at unspecified.  The
\* value is the set of row orders the query may produce: any row with the
\* least (ASC) or greatest (DESC) created_at may come first.
OrderByCreatedAt(rows, dir) ==
    IF Len(rows) = 0 THEN {<<>>}
    ELSE LET first == {i \in 1..Len(rows) :
                          \A j \in 1..Len(rows) :
                              IF dir = "ASC"
                              THEN rows[i].created_at <= rows[j].created_at
                              ELSE rows[i].created_at >= rows[j].created_at}
         IN  UNION {{<<rows[i]>> \o rest :
                        rest \in OrderByCreatedAt(RemoveAt(rows, i), dir)} :
                    i \in first}

\* LIMIT ? OFFSET ?  (a negative LIMIT is no limit in SQLite).
LimitOffset(rows, limit, offset) ==
    LET n == Len(rows)
        first == offset + 1
        last == IF limit < 0 \/ offset + limit > n THEN n ELSE offset + limit
    IN  IF first > n THEN <<>> ELSE SubSeq(rows, first, last)

\* INSERT INTO sessions (id, created_at) VALUES (?, ?)
create_session(db, session_id, now) ==
    [db EXCEPT !.sessions =
        [s \in DOMAIN db.sessions \cup {session_id} |->
            IF s = session_id
            THEN [created_at |-> now, last_message_at |-> None, summary |-> None]
            ELSE db.sessions[s]]]

\* SELECT 1 FROM sessions WHERE id = ?
session_exists(db, session_id) == session_id \in DOMAIN db.sessions

\* delete_session returning True whatever the second DELETE matched.
delete_session_reporting_true(db, session_id) ==
    [db |-> [db EXCEPT
                !.messages = SelectSeq(db.messages,
                                       LAMBDA m : m.session_id # session_id),
                !.sessions = [s \in DOMAIN db.sessions \ {session_id} |->
                                 db.sessions[s]]],
     deleted |-> TRUE]

\* delete_session with the first DELETE left out.
delete_session_keeping_messages(db, session_id) ==
    [db |-> [db EXCEPT
                !.sessions = [s \in DOMAIN db.sessions \ {session_id} |->
                                 db.sessions[s]]],
     deleted |-> session_id \in DOMAIN db.sessions]

\* COALESCE that takes created_at whatever last_message_at holds.
Coalesce_second(a, b) == b

\* COALESCE(a, b) of a nullable column a and a value b.
Coalesce(a, b) == IF a # None THEN a[1] ELSE b

\* SessionInfo(session_id=row["id"], ..., message_count=COUNT(m.id), ...) of
\* the row of session_id joined with its messages.
SessionInfo(db, session_id) ==
    [session_id |-> session_id,
     created_at |-> db.sessions[session_id].created_at,
     last_message_at |-> db.sessions[session_id].last_message_at,
     message_count |-> Len(RowsOf(db, session_id)),
     summary |-> db.sessions[session_id].summary]

RECURSIVE OrderByLastActivity(_)
\* ORDER BY COALESCE(s.last_message_at, s.created_at) DESC of a set of rows:
\* the orders the query may produce.  The sort key is that value alone, so
\* any row with the greatest value may come first.
OrderByLastActivity(rows) ==
    IF rows = {} THEN {<<>>}
    ELSE LET key(r) == Coalesce(r.last_message_at, r.created_at)
             first == {r \in rows : \A q \in rows : key(r) >= key(q)}
         IN  UNION {{<<r>> \o rest : rest \in OrderByLastActivity(rows \ {r})} :
                    r \in first}

\* The lists list_sessions may return.
list_sessions(db) ==
    OrderByLastActivity({SessionInfo(db, id) : id \in DOMAIN db.sessions})

\* DELETE FROM messages WHERE session_id = ?; DELETE FROM sessions WHERE id = ?;
\* one transaction.  The value returned is cursor.rowcount > 0 of the second.
delete_session(db, session_id) ==
    [db |-> [db EXCEPT
                !.messages = SelectSeq(db.messages,
                                       LAMBDA m : m.session_id # session_id),
                !.sessions = [s \in DOMAIN db.sessions \ {session_id} |->
                                 db.sessions[s]]],
     deleted |-> session_id \in DOMAIN db.sessions]

\* add_message as an upsert: the session row is created when there is none.
add_message_creating_session(db, session_id, role, content, emotion_tag, saturation_tag, now) ==
    [db EXCEPT
        !.messages = Append(db.messages,
                            [id |-> db.seq + 1, session_id |-> session_id,
                             role |-> role, content |-> content,
                             emotion_tag |-> emotion_tag,
                             saturation_tag |-> saturation_tag,
                             created_at |-> now]),
        !.seq = db.seq + 1,
        !.sessions = [s \in DOMAIN db.sessions \cup {session_id} |->
                         IF s # session_id THEN db.sessions[s]
                         ELSE IF s \in DOMAIN db.sessions
                         THEN [db.sessions[s] EXCEPT !.last_message_at = Some(now)]
                         ELSE [created_at |-> now, last_message_at |-> Some(now),
                               summary |-> None]]]

\* INSERT INTO messages ...; UPDATE sessions SET last_message_at = ? WHERE
\* id = ?; one transaction.  PRAGMA foreign_keys is never switched on, so the
\* INSERT does not look at table sessions and the UPDATE may match no row.
add_message(db, session_id, role, content, emotion_tag, saturation_tag, now) ==
    [db EXCEPT
        !.messages = Append(db.messages,
                            [id |-> db.seq + 1, session_id |-> session_id,
                             role |-> role, content |-> content,
                             emotion_tag |-> emotion_tag,
                             saturation_tag |-> saturation_tag,
                             created_at |-> now]),
        !.seq = db.seq + 1,
        !.sessions = [s \in DOMAIN db.sessions |->
                         IF s = session_id
                         THEN [db.sessions[s] EXCEPT !.last_message_at = Some(now)]
                         ELSE db.sessions[s]]]

\* The lists get_messages may return.  `if limit:` is Python truthiness:
\* None and 0 both take the unlimited branch.
get_messages(db, session_id, limit, offset) ==
    LET rows == RowsOf(db, session_id)
    IN  IF limit # None /\ limit[1] # 0
        THEN UNION {{MessageInfos(outer) :
                        outer \in OrderByCreatedAt(
                                      LimitOffset(inner, limit[1], offset), "ASC")} :
                    inner \in OrderByCreatedAt(rows, "DESC")}
        ELSE {MessageInfos(r) : r \in OrderByCreatedAt(rows, "ASC")}

\* SELECT COUNT(*) FROM messages WHERE session_id = ?
get_message_count(db, session_id) == Len(RowsOf(db, session_id))

\* update_summary that leaves a stored summary alone: the first writer wins.
update_summary_keeping_first(db, session_id, summary) ==
    [db EXCEPT !.sessions =
        [s \in DOMAIN db.sessions |->
            IF s = session_id /\ db.sessions[s].summary = None
            THEN [db.sessions[s] EXCEPT !.summary = Some(summary)]
            ELSE db.sessions[s]]]

\* UPDATE sessions SET summary = ? WHERE id = ?  (no row matched: no error)
update_summary(db, session_id, summary) ==
    [db EXCEPT !.sessions =
        [s \in DOMAIN db.sessions |->
            IF s = session_id
            THEN [db.sessions[s] EXCEPT !.summary = Some(summary)]
            ELSE db.sessions[s]]]

\* SELECT summary FROM sessions WHERE id = ?;  row[0] if row else None
get_summary(db, session_id) ==
    IF session_id \in DOMAIN db.sessions
    THEN db.sessions[session_id].summary
    ELSE None

\* get_old_messages_for_summary keeping one row more than asked.
get_old_messages_for_summary_keeping_one_more(db, session_id, keep_recent) ==
    LET total_count == get_message_count(db, session_id)
        old_count == total_count - (keep_recent + 1)
    IN  IF total_count <= keep_recent + 1
        THEN {<<>>}
        ELSE {MessageInfos(LimitOffset(r, old_count, 0)) :
                 r \in OrderByCreatedAt(RowsOf(db, session_id), "ASC")}

\* The lists get_old_messages_for_summary may return: all but the last
\* keep_recent rows of ORDER BY created_at ASC.
get_old_messages_for_summary(db, session_id, keep_recent) ==
    LET total_count == get_message_count(db, session_id)
        old_count == total_count - keep_recent
    IN  IF total_count <= keep_recent
        THEN {<<>>}
        ELSE {MessageInfos(LimitOffset(r, old_count, 0)) :
                 r \in OrderByCreatedAt(RowsOf(db, session_id), "ASC")}


(***************************************************************************)
(* MemoryManager.                                                          *)
(***************************************************************************)
\* get_or_create_session without the session_exists test.
get_or_create_session_unchecked(db, session_id, fresh, now) ==
    IF Truthy(session_id)
    THEN [db |-> db, session_id |-> session_id[1]]
    ELSE [db |-> create_session(db, fresh, now), session_id |-> fresh]

\* Returns the id to use and the store after the call.  `fresh` is the id
\* uuid4 generates if a session has to be created.
get_or_create_session(db, session_id, fresh, now) ==
    IF Truthy(session_id) /\ session_exists(db, session_id[1])
    THEN [db |-> db, session_id |-> session_id[1]]
    ELSE [db |-> create_session(db, fresh, now), session_id |-> fresh]

\* should_summarize with > for >=.
should_summarize_above(db, session_id) ==
    get_message_count(db, session_id) > summarize_threshold

should_summarize(db, session_id) ==
    get_message_count(db, session_id) >= summarize_threshold

RECURSIVE JoinLines(_)
\* "\n".join(parts)
JoinLines(parts) ==
    IF Len(parts) = 0 THEN ""
    ELSE IF Len(parts) = 1 THEN parts[1]
    ELSE parts[1] \o "\n" \o JoinLines(Tail(parts))

\* The labels are the source's Korean ones, written in ASCII.
format_messages_for_summary(msgs, existing_summary) ==
    LET head == IF Truthy(existing_summary)
                THEN <<"[previous summary]\n" \o existing_summary[1] \o "\n">>
                ELSE <<>>
        lines == [i \in 1..Len(msgs) |->
                     (IF msgs[i].role = "human" THEN "user" ELSE "frieren")
                         \o ": " \o msgs[i].content]
    IN  JoinLines(head \o <<"[new conversation]">> \o lines)

\* summarize_old_messages whose except branch stores an empty summary.
summarize_old_messages_clearing(db, session_id, old_messages, llm) ==
    LET existing_summary == get_summary(db, session_id)
        conversation_text ==
            format_messages_for_summary(old_messages, existing_summary)
    IN  IF Len(old_messages) = 0
        THEN [db |-> db, result |-> existing_summary, prompt |-> None]
        ELSE IF llm = None
        THEN [db |-> update_summary(db, session_id, ""), result |-> Some(""),
              prompt |-> Some(conversation_text)]
        ELSE [db |-> update_summary(db, session_id, llm[1]), result |-> llm,
              prompt |-> Some(conversation_text)]

\* summarize_old_messages gated behind a stored summary: the Summarizer is
\* not called again once the session has one.
summarize_old_messages_once(db, session_id, old_messages, llm) ==
    LET existing_summary == get_summary(db, session_id)
        conversation_text ==
            format_messages_for_summary(old_messages, existing_summary)
    IN  IF Len(old_messages) = 0 \/ Truthy(existing_summary)
        THEN [db |-> db, result |-> existing_summary, prompt |-> None]
        ELSE IF llm = None
        THEN [db |-> db, result |-> existing_summary,
              prompt |-> Some(conversation_text)]
        ELSE [db |-> update_summary(db, session_id, llm[1]), result |-> llm,
              prompt |-> Some(conversation_text)]

\* summarize_old_messages without the early return of lines 64-65: the
\* Summarizer is called also when there is no old message.
summarize_old_messages_unguarded(db, session_id, old_messages, llm) ==
    LET existing_summary == get_summary(db, session_id)
        conversation_text ==
            format_messages_for_summary(old_messages, existing_summary)
    IN  IF llm = None
        THEN [db |-> db, result |-> existing_summary,
              prompt |-> Some(conversation_text)]
        ELSE [db |-> update_summary(db, session_id, llm[1]), result |-> llm,
              prompt |-> Some(conversation_text)]

\* summarize_old_messages that drops the rows it has summarized.
summarize_old_messages_pruning(db, session_id, old_messages, llm) ==
    LET existing_summary == get_summary(db, session_id)
        conversation_text ==
            format_messages_for_summary(old_messages, existing_summary)
        retired == {old_messages[i] : i \in 1..Len(old_messages)}
        kept == SelectSeq(db.messages,
                          LAMBDA m : ~(m.session_id = session_id
                                        /\ MessageInfo(m) \in retired))
    IN  IF Len(old_messages) = 0
        THEN [db |-> db, result |-> existing_summary, prompt |-> None]
        ELSE IF llm = None
        THEN [db |-> db, result |-> existing_summary,
              prompt |-> Some(conversation_text)]
        ELSE [db |-> [update_summary(db, session_id, llm[1])
                          EXCEPT !.messages = kept],
              result |-> llm, prompt |-> Some(conversation_text)]

\* old_messages is what get_old_messages_for_summary returned; llm is the
\* Summarizer's answer: None when llm.ainvoke raised, else Some(text) with
\* text = response.content.strip().  prompt is the text the Summarizer was
\* called with, None when it was not called.
summarize_old_messages(db, session_id, old_messages, llm) ==
    LET existing_summary == get_summary(db, session_id)
        conversation_text ==
            format_messages_for_summary(old_messages, existing_summary)
    IN  IF Len(old_messages) = 0
        THEN [db |-> db, result |-> existing_summary, prompt |-> None]
        ELSE IF llm = None
        THEN [db |-> db, result |-> existing_summary,
              prompt |-> Some(conversation_text)]
        ELSE [db |-> update_summary(db, session_id, llm[1]), result |-> llm,
              prompt |-> Some(conversation_text)]

SystemMessage(text) == [type |-> "system", content |-> text]
HumanMessage(text) == [type |-> "human", content |-> text]
AIMessage(text) == [type |-> "ai", content |-> text]

\* The header of the summary entry (the source's Korean one, in ASCII).
SummaryHeader == "[summary of the conversation so far]\n"

\* A stored message as a prompt entry: HumanMessage for role "human",
\* AIMessage otherwise.
PromptMessage(msg) ==
    IF msg.role = "human"
    THEN HumanMessage(msg.content)
    ELSE AIMessage(msg.content)

\* recent_messages is what get_messages(session_id, limit=max_recent_messages)
\* returned after the compaction step.
build_prompt_messages(db, session_id, new_message, old_messages, llm, recent_messages) ==
    LET compaction ==
            IF should_summarize(db, session_id)
            THEN summarize_old_messages(db, session_id, old_messages, llm)
            ELSE [db |-> db, result |-> None, prompt |-> None]
        summary == get_summary(compaction.db, session_id)
        context == IF Truthy(summary)
                   THEN <<SystemMessage(SummaryHeader \o summary[1])>>
                   ELSE <<>>
        window == [i \in 1..Len(recent_messages) |->
                      PromptMessage(recent_messages[i])]
    IN  [db |-> compaction.db,
         messages |-> context \o window \o <<HumanMessage(new_message)>>,
         prompt |-> compaction.prompt]

\* Two add_message calls, each its own transaction.  failure is where the
\* store raised: "none", "human" (in the first call) or "ai" (in the second).
save_conversation_turn(db, session_id, user_message, ai_response, emotion_tag, saturation_tag, now1, now2, failure) ==
    LET db1 == add_message(db, session_id, "human", user_message,
                           None, None, now1)
        db2 == add_message(db1, session_id, "ai", ai_response,
                           emotion_tag, saturation_tag, now2)
    IN  IF failure = "human" THEN [db |-> db, raised |-> TRUE]
        ELSE IF failure = "ai" THEN [db |-> db1, raised |-> TRUE]
        ELSE [db |-> db2, raised |-> FALSE]


(***************************************************************************)
(* vllm_client.generate_response: one turn.                                *)
(***************************************************************************)
\* The static reply of the except branch.
FallbackResponse(session_id) ==
    [response |-> "fallback", emotion_tag |-> Some("neutral"),
     saturation_tag |-> Some("0.1"), session_id |-> session_id]

\* What the model call returns when it succeeds (a ChatResponse).
ModelResponse(text) ==
    [response |-> text, emotion_tag |-> Some("happy"),
     saturation_tag |-> Some("0.7")]

\* Where the turn's try block raised, if anywhere:
\*   "resolve"        the store, in get_or_create_session (line 51); the call
\*                    repeated in the except branch succeeds
\*   "resolve_retry"  as "resolve", and the repeated call raises too
\*   "knowledge"      knowledge_manager.get_context_for_prompt
\*   "model"          structured_llm.ainvoke
\*   "save_human"     the store, in the turn's first add_message
\*   "save_ai"        the store, in the turn's second add_message
TurnFailures ==
    {"none", "resolve", "resolve_retry", "knowledge", "model",
     "save_human", "save_ai"}

\* generate_response recording the user's message before it calls the model.
generate_response_saving_first(db, user_message, session_id, fresh, now0, failure, old_messages, llm, recent_messages, ai_text, now1, now2) ==
    LET resolved == get_or_create_session(db, session_id, fresh, now0)
        sid == resolved.session_id
        built == build_prompt_messages(resolved.db, sid, user_message,
                                       old_messages, llm, recent_messages)
        first == add_message(built.db, sid, "human", user_message,
                             None, None, now1)
        second == add_message(first, sid, "ai", ai_text,
                              Some("happy"), Some("0.7"), now2)
        answer(d, r) == [db |-> d, raised |-> FALSE, response |-> r]
    IN  IF failure \in {"resolve", "resolve_retry"}
        THEN IF session_id # None
             THEN answer(db, FallbackResponse(session_id[1]))
             ELSE IF failure = "resolve"
             THEN answer(resolved.db, FallbackResponse(sid))
             ELSE [db |-> db, raised |-> TRUE, response |-> None]
        ELSE IF failure = "knowledge"
        THEN answer(resolved.db, FallbackResponse(sid))
        ELSE IF failure = "save_human"
        THEN answer(built.db, FallbackResponse(sid))
        ELSE IF failure \in {"model", "save_ai"}
        THEN answer(first, FallbackResponse(sid))
        ELSE answer(second,
                    [response |-> ai_text, emotion_tag |-> Some("happy"),
                     saturation_tag |-> Some("0.7"), session_id |-> sid])

generate_response(db, user_message, session_id, fresh, now0, failure, old_messages, llm, recent_messages, ai_text, now1, now2) ==
    LET resolved == get_or_create_session(db, session_id, fresh, now0)
        sid == resolved.session_id
        built == build_prompt_messages(resolved.db, sid, user_message,
                                       old_messages, llm, recent_messages)
        response == ModelResponse(ai_text)
        saved == save_conversation_turn(
                     built.db, sid, user_message, response.response,
                     response.emotion_tag, response.saturation_tag, now1, now2,
                     IF failure = "save_human" THEN "human"
                     ELSE IF failure = "save_ai" THEN "ai" ELSE "none")
        answer(d, r) == [db |-> d, raised |-> FALSE, response |-> r]
    IN  IF failure \in {"resolve", "resolve_retry"}
        THEN \* session_id is still the caller's argument
             IF session_id # None
             THEN answer(db, FallbackResponse(session_id[1]))
             ELSE IF failure = "resolve"
             THEN answer(resolved.db, FallbackResponse(sid))
             ELSE [db |-> db, raised |-> TRUE, response |-> None]
        ELSE IF failure = "knowledge"
        THEN answer(resolved.db, FallbackResponse(sid))
        ELSE IF failure = "model"
        THEN answer(built.db, FallbackResponse(sid))
        ELSE IF failure \in {"save_human", "save_ai"}
        THEN answer(saved.db, FallbackResponse(sid))
        ELSE answer(saved.db,
                    [response |-> response.response,
                     emotion_tag |-> response.emotion_tag,
                     saturation_tag |-> response.saturation_tag,
                     session_id |-> sid])

(***************************************************************************)
(* generate_response_with_media: the reply, then the image and the audio   *)
(* generated side by side (asyncio.gather, return_exceptions=True).        *)
(***************************************************************************)
\* What happens in a branch: the server answered and the file was made, the
\* connection check returned False, or a call of the branch raised.
MediaOutcomes == {"done", "unavailable", "raised"}

\* What asyncio.gather collects from a task: its value, or the exception it
\* ended with.  Both tasks catch Exception themselves and return None.
generate_image_task(enable_image, outcome) ==
    IF ~enable_image THEN [exception |-> FALSE, value |-> None]
    ELSE IF outcome = "unavailable" THEN [exception |-> FALSE, value |-> None]
    ELSE IF outcome = "raised" THEN [exception |-> FALSE, value |-> None]
    ELSE [exception |-> FALSE,
          value |-> Some([filename |-> "image.png", seed |-> "seed"])]

generate_audio_task(enable_audio, outcome) ==
    IF ~enable_audio THEN [exception |-> FALSE, value |-> None]
    ELSE IF outcome = "unavailable" THEN [exception |-> FALSE, value |-> None]
    ELSE IF outcome = "raised" THEN [exception |-> FALSE, value |-> None]
    ELSE [exception |-> FALSE,
          value |-> Some([filename |-> "audio.wav", filepath |-> "/audio.wav"])]

\* generate_response_with_media in which the audio is generated only after
\* the image branch has produced its result.
generate_response_with_media_aborting(base_response, enable_image, enable_audio, image_outcome, audio_outcome) ==
    LET image == generate_image_task(enable_image, image_outcome)
        audio == IF enable_image /\ image.value = None
                 THEN [exception |-> FALSE, value |-> None]
                 ELSE generate_audio_task(enable_audio, audio_outcome)
    IN  [response |-> base_response.response,
         emotion_tag |-> base_response.emotion_tag,
         saturation_tag |-> base_response.saturation_tag,
         session_id |-> base_response.session_id,
         image |-> image.value, audio |-> audio.value]

\* Lines 175-245, after base_response = await generate_response(...).
generate_response_with_media(base_response, enable_image, enable_audio, image_outcome, audio_outcome) ==
    LET results == <<generate_image_task(enable_image, image_outcome),
                     generate_audio_task(enable_audio, audio_outcome)>>
        image_result == IF ~results[1].exception THEN results[1].value
                        ELSE None
        audio_result == IF ~results[2].exception THEN results[2].value
                        ELSE None
    IN  [response |-> base_response.response,
         emotion_tag |-> base_response.emotion_tag,
         saturation_tag |-> base_response.saturation_tag,
         session_id |-> base_response.session_id,
         image |-> image_result, audio |-> audio_result]

(***************************************************************************)
(* Inputs.                                                                 *)
(***************************************************************************)
\* datetime.now(): wall-clock time, which does not run backwards here but may
\* read the same value twice (the clock's resolution).
ClockReadings(c) == {t \in {c, c + 1} : t <= MaxClock}

\* Every id create_session has returned, whether its session still exists or
\* was deleted.
IssuedIds == {uuid4(n) : n \in 1..issued}

\* Ids callers pass: the issued ones, and a string that is no id.
CallerIds == IssuedIds \cup {"invalid-session-id"}

\* Optional[str] session ids of the turn-initiating calls.
OptionalIds == {None} \cup {Some(i) : i \in CallerIds \cup {""}}

\* Each message text is one not used before: the n-th row's text is "m<n>".
Payload(n) == "m" \o ToString(n)

\* The Summarizer's answer: None when the call raised.
SummarizerAnswers == {None} \cup {Some(t) : t \in SummaryTexts}

SummarizerStatus(prompt, llm) ==
    IF prompt = None THEN "not_called"
    ELSE IF llm = None THEN "raised" ELSE "answered"

Commit(db) ==
    /\ sessions' = db.sessions
    /\ messages' = db.messages
    /\ seq' = db.seq

Settings == <<max_recent_messages, summarize_threshold>>

(***************************************************************************)
(* Initial state: empty tables (CREATE TABLE IF NOT EXISTS), and settings  *)
(* read from the environment (pydantic BaseSettings).                      *)
(***************************************************************************)
Init ==
    /\ sessions = [s \in {} |-> None]
    /\ messages = <<>>
    /\ seq = 0
    /\ issued = 0
    /\ clock = 0
    /\ \E setting \in SettingsExplored :
         /\ max_recent_messages = setting[1]
         /\ summarize_threshold = setting[2]
    /\ ret = [op |-> "start"]
    /\ calls = <<>>

(***************************************************************************)
(* Actions: one per call.                                                  *)
(***************************************************************************)
CreateSession ==
    /\ issued < MaxSessions
    /\ \E now \in ClockReadings(clock) :
         /\ Commit(create_session(DB, uuid4(issued + 1), now))
         /\ clock' = now
    /\ issued' = issued + 1
    /\ ret' = [op |-> "create_session", session_id |-> uuid4(issued + 1)]
    /\ UNCHANGED <<Settings, calls>>

\* ret.again: the call before this one was delete_session of the same id and
\* returned True.
DeleteSession ==
    \E id \in CallerIds :
        LET r == delete_session(DB, id)
        IN  /\ Commit(r.db)
            /\ ret' = [op |-> "delete_session", session_id |-> id,
                       deleted |-> r.deleted,
                       again |-> (ret.op = "delete_session"
                                  /\ ret.session_id = id /\ ret.deleted)]
            /\ UNCHANGED <<issued, clock, Settings, calls>>

\* A direct store call, as the tests make it.
AddMessage ==
    /\ seq < MaxMessages
    /\ \E id \in IssuedIds, role \in {"human", "ai"},
          now \in ClockReadings(clock) :
         /\ Commit(add_message(DB, id, role, Payload(seq + 1),
                               IF role = "ai" THEN Some("neutral") ELSE None,
                               IF role = "ai" THEN Some("0.3") ELSE None,
                               now))
         /\ clock' = now
         /\ ret' = [op |-> "add_message", session_id |-> id]
    /\ UNCHANGED <<issued, Settings, calls>>

\* A direct store call, as the tests make it.  error is the exception the
\* call raised: the UPDATE matches no row without raising, so None.
UpdateSummary ==
    \E id \in CallerIds, summary \in SummaryTexts :
        /\ Commit(update_summary(DB, id, summary))
        /\ ret' = [op |-> "update_summary", session_id |-> id,
                   summary |-> summary, error |-> None]
        /\ UNCHANGED <<issued, clock, Settings, calls>>

GetMessages ==
    /\ \E id \in CallerIds,
          limit \in {None} \cup {Some(k) : k \in 0..MaxMessages} :
         \E result \in get_messages(DB, id, limit, 0) :
            ret' = [op |-> "get_messages", session_id |-> id,
                    limit |-> limit, result |-> result]
    /\ UNCHANGED <<sessions, messages, seq, issued, clock, Settings, calls>>

ListSessions ==
    /\ \E result \in list_sessions(DB) :
         ret' = [op |-> "list_sessions", result |-> result]
    /\ UNCHANGED <<sessions, messages, seq, issued, clock, Settings, calls>>

GetOrCreateSession ==
    \E session_id \in OptionalIds :
        LET existed == Truthy(session_id) /\ session_exists(DB, session_id[1])
        IN  \E now \in IF existed THEN {clock} ELSE ClockReadings(clock) :
               LET r == get_or_create_session(DB, session_id,
                                              uuid4(issued + 1), now)
               IN  /\ existed \/ issued < MaxSessions
                   /\ Commit(r.db)
                   /\ issued' = IF existed THEN issued ELSE issued + 1
                   /\ clock' = now
                   /\ ret' = [op |-> "get_or_create_session",
                              arg |-> session_id,
                              session_id |-> r.session_id,
                              existed |-> existed]
                   /\ UNCHANGED <<Settings, calls>>

\* Whether summarize_old_messages on this store gets as far as the Summarizer.
ReachesSummarizer(db, id) ==
    get_message_count(db, id) > max_recent_messages

SummarizeOldMessages ==
    \E id \in CallerIds :
        \E llm \in IF ReachesSummarizer(DB, id)
                   THEN SummarizerAnswers ELSE {None},
           old_messages \in
               get_old_messages_for_summary(DB, id, max_recent_messages) :
            LET r == summarize_old_messages(DB, id, old_messages, llm)
            IN  /\ Commit(r.db)
                /\ ret' = [op |-> "summarize_old_messages", session_id |-> id,
                           summarizer |-> SummarizerStatus(r.prompt, llm),
                           prompt |-> r.prompt, result |-> r.result]
                /\ UNCHANGED <<issued, clock, Settings, calls>>

BuildPromptMessages ==
    \E id \in CallerIds :
        \E llm \in IF should_summarize(DB, id) /\ ReachesSummarizer(DB, id)
                   THEN SummarizerAnswers ELSE {None},
           old_messages \in
               get_old_messages_for_summary(DB, id, max_recent_messages),
           recent_messages \in
               get_messages(DB, id, Some(max_recent_messages), 0) :
            LET r == build_prompt_messages(DB, id, Payload(seq + 1),
                                           old_messages, llm, recent_messages)
            IN  /\ Commit(r.db)
                /\ ret' = [op |-> "build_prompt_messages", session_id |-> id,
                           new_message |-> Payload(seq + 1),
                           summarizer |-> SummarizerStatus(r.prompt, llm),
                           answer |-> IF r.prompt = None THEN None ELSE llm,
                           messages |-> r.messages]
                /\ UNCHANGED <<issued, clock, Settings, calls>>

SaveConversationTurn ==
    \E id \in IssuedIds, failure \in {"none", "human", "ai"} :
        \E now1 \in IF failure = "human" THEN {clock} ELSE ClockReadings(clock) :
            \E now2 \in IF failure = "none" THEN ClockReadings(now1) ELSE {now1} :
                LET r == save_conversation_turn(
                             DB, id, Payload(seq + 1), Payload(seq + 2),
                             Some("happy"), Some("0.7"), now1, now2, failure)
                IN  /\ r.db.seq <= MaxMessages
                    /\ Commit(r.db)
                    /\ clock' = now2
                    /\ ret' = [op |-> "save_conversation_turn",
                               session_id |-> id, failure |-> failure,
                               raised |-> r.raised]
                    /\ UNCHANGED <<issued, Settings, calls>>

GenerateResponse ==
    \E session_id \in OptionalIds, failure \in TurnFailures :
        LET fresh == uuid4(issued + 1)
            existed == Truthy(session_id) /\ session_exists(DB, session_id[1])
            resolves == failure \notin {"resolve", "resolve_retry"}
            builds == resolves /\ failure # "knowledge"
            saves == failure \in {"none", "save_ai"}
        IN  \E now0 \in IF existed THEN {clock} ELSE ClockReadings(clock) :
               LET resolved == get_or_create_session(DB, session_id, fresh, now0)
                   rdb == resolved.db
                   sid == resolved.session_id
               IN  \E llm \in IF builds /\ should_summarize(rdb, sid)
                                       /\ ReachesSummarizer(rdb, sid)
                              THEN SummarizerAnswers ELSE {None},
                      old_messages \in
                          IF builds
                          THEN get_old_messages_for_summary(
                                   rdb, sid, max_recent_messages)
                          ELSE {<<>>},
                      recent_messages \in
                          IF builds
                          THEN get_messages(rdb, sid,
                                            Some(max_recent_messages), 0)
                          ELSE {<<>>},
                      now1 \in IF saves THEN ClockReadings(now0) ELSE {now0} :
                     \E now2 \in IF failure = "none"
                                 THEN ClockReadings(now1) ELSE {now1} :
                        LET r == generate_response(
                                     DB, Payload(seq + 1), session_id, fresh,
                                     now0, failure, old_messages, llm,
                                     recent_messages, Payload(seq + 2),
                                     now1, now2)
                            created == fresh \in DOMAIN r.db.sessions
                        IN  /\ created => issued < MaxSessions
                            /\ r.db.seq <= MaxMessages
                            /\ Commit(r.db)
                            /\ issued' = IF created THEN issued + 1 ELSE issued
                            /\ clock' = now2
                            /\ ret' = [op |-> "generate_response",
                                       arg |-> session_id,
                                       failure |-> failure,
                                       raised |-> r.raised,
                                       response |-> r.response]
                            /\ UNCHANGED <<Settings, calls>>

\* generate_response_with_media: its first step is the generate_response
\* call that has just returned (line 172; when that call raises, so does
\* this one); this is the rest, lines 175-245.  Nothing of it touches the
\* store.  A branch that is switched off asks no server: its outcome is
\* "off".
GatherMedia ==
    /\ ret.op = "generate_response"
    /\ ~ret.raised
    /\ \E enable_image, enable_audio \in BOOLEAN :
       \E image_outcome \in IF enable_image THEN MediaOutcomes ELSE {"off"},
          audio_outcome \in IF enable_audio THEN MediaOutcomes ELSE {"off"} :
         ret' = [op |-> "generate_response_with_media",
                 base |-> ret.response,
                 enable_image |-> enable_image,
                 enable_audio |-> enable_audio,
                 image_outcome |-> image_outcome,
                 audio_outcome |-> audio_outcome,
                 result |-> generate_response_with_media(
                                ret.response, enable_image, enable_audio,
                                image_outcome, audio_outcome)]
    /\ UNCHANGED <<sessions, messages, seq, issued, clock, Settings, calls>>

(***************************************************************************)
(* Calls made as concurrent requests.  Each is a coroutine: between two    *)
(* awaits it runs alone, and every store call is one SQLite transaction on *)
(* a connection of its own, so a request advances one store call at a      *)
(* time while the others are suspended.  calls[c] holds the c-th request's *)
(* position (pc) and local values.                                         *)
(***************************************************************************)
\* Texts of the c-th concurrent request, unlike every Payload text.
CallPayload(c, role) == role \o "-" \o ToString(c)

\* The requests suspended at an await when a new one is made.
InFlight == {c \in 1..Len(calls) : calls[c].pc # "returned"}

\* generate_response, lines 49-51: the session is resolved.
TurnResolve ==
    /\ Len(calls) < MaxCalls
    /\ \E session_id \in OptionalIds :
         LET existed == Truthy(session_id) /\ session_exists(DB, session_id[1])
         IN  \E now \in IF existed THEN {clock} ELSE ClockReadings(clock) :
                LET r == get_or_create_session(DB, session_id,
                                               uuid4(issued + 1), now)
                IN  /\ existed \/ issued < MaxSessions
                    /\ Commit(r.db)
                    /\ issued' = IF existed THEN issued ELSE issued + 1
                    /\ clock' = now
                    /\ calls' = Append(calls,
                                       [op |-> "generate_response",
                                        pc |-> "resolved",
                                        session_id |-> r.session_id,
                                        during |-> InFlight])
                    /\ ret' = [op |-> "await", call |-> Len(calls) + 1]
                    /\ UNCHANGED Settings

\* generate_response, lines 53-79: the knowledge lookup, the context window
\* (build_prompt_messages) and the model call.  A failure of the lookup or
\* of the model call ends the request with the fallback response.
TurnBuild ==
    \E c \in 1..Len(calls), failure \in {"none", "knowledge", "model"} :
        /\ calls[c].op = "generate_response"
        /\ calls[c].pc = "resolved"
        /\ LET sid == calls[c].session_id
               builds == failure # "knowledge"
           IN  \E llm \in IF builds /\ should_summarize(DB, sid)
                                   /\ ReachesSummarizer(DB, sid)
                          THEN SummarizerAnswers ELSE {None},
                  old_messages \in
                      IF builds
                      THEN get_old_messages_for_summary(
                               DB, sid, max_recent_messages)
                      ELSE {<<>>},
                  recent_messages \in
                      IF builds
                      THEN get_messages(DB, sid, Some(max_recent_messages), 0)
                      ELSE {<<>>} :
                 LET r == build_prompt_messages(
                              DB, sid, CallPayload(c, "human"),
                              old_messages, llm, recent_messages)
                 IN  /\ Commit(IF builds THEN r.db ELSE DB)
                     /\ calls' = [calls EXCEPT ![c] =
                            IF failure = "none"
                            THEN [@ EXCEPT !.pc = "built"]
                            ELSE [op |-> "generate_response",
                                  pc |-> "returned",
                                  session_id |-> sid,
                                  during |-> @.during,
                                  response |-> FallbackResponse(sid)]]
                     /\ ret' = [op |-> "await", call |-> c]
                     /\ UNCHANGED <<issued, clock, Settings>>

\* save_conversation_turn, lines 165-169: the user's message is appended.
TurnSaveHuman ==
    \E c \in 1..Len(calls), now \in ClockReadings(clock) :
        /\ calls[c].op = "generate_response"
        /\ calls[c].pc = "built"
        /\ Commit(add_message(DB, calls[c].session_id, "human",
                              CallPayload(c, "human"), None, None, now))
        /\ clock' = now
        /\ calls' = [calls EXCEPT ![c].pc = "saved_human"]
        /\ ret' = [op |-> "await", call |-> c]
        /\ UNCHANGED <<issued, Settings>>

\* save_conversation_turn, lines 172-178: the reply is appended; then
\* generate_response returns it with the session id (lines 88-92).
TurnSaveAi ==
    \E c \in 1..Len(calls), now \in ClockReadings(clock) :
        /\ calls[c].op = "generate_response"
        /\ calls[c].pc = "saved_human"
        /\ Commit(add_message(DB, calls[c].session_id, "ai",
                              CallPayload(c, "ai"),
                              Some("happy"), Some("0.7"), now))
        /\ clock' = now
        /\ calls' = [calls EXCEPT ![c] =
               [op |-> "generate_response", pc |-> "returned",
                session_id |-> @.session_id, during |-> @.during,
                response |-> [response |-> CallPayload(c, "ai"),
                              emotion_tag |-> Some("happy"),
                              saturation_tag |-> Some("0.7"),
                              session_id |-> @.session_id]]]
        /\ ret' = [op |-> "await", call |-> c]
        /\ UNCHANGED <<issued, Settings>>

\* delete_session made as a concurrent request: the request is suspended
\* before its transaction (at _ensure_db, at aiosqlite.connect).
DeleteCall ==
    /\ Len(calls) < MaxCalls
    /\ \E id \in CallerIds :
         calls' = Append(calls, [op |-> "delete_session", pc |-> "called",
                                 session_id |-> id,
                                 existed |-> session_exists(DB, id),
                                 during |-> InFlight])
    /\ ret' = [op |-> "await", call |-> Len(calls) + 1]
    /\ UNCHANGED <<sessions, messages, seq, issued, clock, Settings>>

\* The transaction of delete_session (lines 169-184).  Its first DELETE
\* takes SQLite's write lock, which it holds until the commit: no other
\* transaction writes in between, and readers see none of it before the
\* commit, so the transaction is one step.
DeleteTransaction ==
    \E c \in 1..Len(calls) :
        /\ calls[c].op = "delete_session"
        /\ calls[c].pc = "called"
        /\ LET r == delete_session(DB, calls[c].session_id)
           IN  /\ Commit(r.db)
               /\ calls' = [calls EXCEPT ![c] =
                      [op |-> "delete_session", pc |-> "returned",
                       session_id |-> @.session_id, existed |-> @.existed,
                       during |-> @.during, deleted |-> r.deleted]]
        /\ ret' = [op |-> "await", call |-> c]
        /\ UNCHANGED <<issued, clock, Settings>>

\* build_prompt_messages made as a concurrent request, lines 125-126 and
\* summarize_old_messages up to its await of llm.ainvoke (lines 56-85):
\* the request is suspended on the Summarizer (pc "summarizing") when the
\* count is at the threshold and there are old messages, and goes on to
\* step 2 otherwise.  prompt is the text the Summarizer is called with,
\* answer what it returned (None until then, and when it raised).
BuildCall ==
    /\ Len(calls) < MaxCalls
    /\ \E id \in CallerIds :
         \E old_messages \in
                get_old_messages_for_summary(DB, id, max_recent_messages) :
            LET awaits == should_summarize(DB, id) /\ Len(old_messages) > 0
            IN  calls' = Append(calls,
                    [op |-> "build_prompt_messages",
                     pc |-> IF awaits THEN "summarizing" ELSE "compacted",
                     session_id |-> id,
                     prompt |-> IF awaits
                                THEN Some(format_messages_for_summary(
                                              old_messages, get_summary(DB, id)))
                                ELSE None,
                     summarizer |-> IF awaits THEN "awaited" ELSE "not_called",
                     old_messages |-> IF awaits THEN old_messages ELSE <<>>,
                     answer |-> None,
                     messages |-> <<>>,
                     during |-> InFlight])
    /\ ret' = [op |-> "await", call |-> Len(calls) + 1]
    /\ UNCHANGED <<sessions, messages, seq, issued, clock, Settings>>

\* llm.ainvoke returns or raises (lines 85-96): the answer is stored by
\* update_summary, an exception is logged.  The await has no time limit:
\* the request stays suspended until this happens.
SummarizerReturns ==
    \E c \in 1..Len(calls), llm \in SummarizerAnswers :
        /\ calls[c].op = "build_prompt_messages"
        /\ calls[c].pc = "summarizing"
        /\ Commit(IF llm = None THEN DB
                  ELSE update_summary(DB, calls[c].session_id, llm[1]))
        /\ calls' = [calls EXCEPT ![c].pc = "compacted",
                                  ![c].summarizer = IF llm = None THEN "raised"
                                                    ELSE "answered",
                                  ![c].answer = llm]
        /\ ret' = [op |-> "await", call |-> c]
        /\ UNCHANGED <<issued, clock, Settings>>

\* build_prompt_messages, lines 129-153: the summary and the recent window
\* are read and the sequence is returned.
BuildFinish ==
    \E c \in 1..Len(calls) :
        /\ calls[c].op = "build_prompt_messages"
        /\ calls[c].pc = "compacted"
        /\ \E recent_messages \in get_messages(DB, calls[c].session_id,
                                              Some(max_recent_messages), 0) :
              LET summary == get_summary(DB, calls[c].session_id)
                  context == IF Truthy(summary)
                             THEN <<SystemMessage(SummaryHeader \o summary[1])>>
                             ELSE <<>>
                  window == [i \in 1..Len(recent_messages) |->
                                PromptMessage(recent_messages[i])]
              IN  calls' = [calls EXCEPT
                      ![c].pc = "returned",
                      ![c].messages =
                          context \o window
                              \o <<HumanMessage(CallPayload(c, "human"))>>]
        /\ ret' = [op |-> "await", call |-> c]
        /\ UNCHANGED <<sessions, messages, seq, issued, clock, Settings>>

\* add_message made as a concurrent request, lines 196-198: the timestamp
\* is read (now = datetime.now()) before the connection is opened, and the
\* request is suspended at aiosqlite.connect.
AddMessageCall ==
    /\ Len(calls) < MaxCalls
    /\ \E id \in IssuedIds, now \in ClockReadings(clock) :
         /\ calls' = Append(calls, [op |-> "add_message", pc |-> "called",
                                    session_id |-> id, now |-> now,
                                    during |-> InFlight])
         /\ clock' = now
    /\ ret' = [op |-> "await", call |-> Len(calls) + 1]
    /\ UNCHANGED <<sessions, messages, seq, issued, Settings>>

\* The transaction of add_message (lines 200-215), with the timestamp the
\* request read when it was made: suspended requests commit in any order.
AddMessageCommit ==
    \E c \in 1..Len(calls) :
        /\ calls[c].op = "add_message"
        /\ calls[c].pc = "called"
        /\ seq < MaxMessages
        /\ Commit(add_message(DB, calls[c].session_id, "human",
                              CallPayload(c, "human"), None, None,
                              calls[c].now))
        /\ calls' = [calls EXCEPT ![c].pc = "returned"]
        /\ ret' = [op |-> "await", call |-> c]
        /\ UNCHANGED <<issued, clock, Settings>>

(***************************************************************************)
(* The program: any call at any time, each running to completion.          *)
(***************************************************************************)
Next ==
    \/ CreateSession
    \/ DeleteSession
    \/ AddMessage
    \/ UpdateSummary
    \/ GetMessages
    \/ ListSessions
    \/ GetOrCreateSession
    \/ SummarizeOldMessages
    \/ BuildPromptMessages
    \/ SaveConversationTurn
    \/ GenerateResponse
    \/ TurnResolve
    \/ TurnBuild
    \/ TurnSaveHuman
    \/ TurnSaveAi
    \/ DeleteCall
    \/ DeleteTransaction
    \/ BuildCall
    \/ SummarizerReturns
    \/ BuildFinish
    \/ AddMessageCall
    \/ AddMessageCommit
    \/ GatherMedia

Spec == Init /\ [][Next]_vars

(***************************************************************************)
(* The program under the calls of one component at a time.  Every          *)
(* behaviour of these is a behaviour of Spec.                              *)
(***************************************************************************)
\* The settings play no part in SessionManager.
InitStore == Init /\ Settings = <<2, 3>>

\* SessionManager: sessions and messages written and deleted.
NextStoreWrites == CreateSession \/ AddMessage \/ DeleteSession
SpecStoreWrites == InitStore /\ [][NextStoreWrites]_vars

\* SessionManager, with the message log read back.
NextStore == CreateSession \/ AddMessage \/ DeleteSession \/ GetMessages
SpecStore == InitStore /\ [][NextStore]_vars

\* The user's side of conversations: add_message with role "human".
AddUserMessage == AddMessage /\ messages'[Len(messages')].role = "human"

\* SessionManager, with the sessions listed.
NextListing ==
    CreateSession \/ AddUserMessage \/ DeleteSession \/ ListSessions
SpecListing == InitStore /\ [][NextListing]_vars

\* Session resolution: sessions created, resolved and deleted.
NextResolve == CreateSession \/ GetOrCreateSession \/ DeleteSession
SpecResolve == Init /\ [][NextResolve]_vars

\* One conversation: the first session is the only one created.
OpenConversation == CreateSession /\ issued = 0

\* The calls that address a session by id, on one conversation.
NextFrame ==
    \/ OpenConversation
    \/ DeleteSession
    \/ AddMessage
    \/ UpdateSummary
    \/ BuildPromptMessages
    \/ SaveConversationTurn
SpecFrame == InitStore /\ [][NextFrame]_vars

\* One conversation, deleted by concurrent requests.
NextDeletes ==
    OpenConversation \/ AddMessage \/ DeleteCall \/ DeleteTransaction
SpecDeletes == InitStore /\ [][NextDeletes]_vars

\* Summaries written directly and by compaction, on one conversation.
NextSummaries ==
    \/ OpenConversation
    \/ AddMessage
    \/ UpdateSummary
    \/ SummarizeOldMessages
SpecSummaries == Init /\ [][NextSummaries]_vars

\* Every kind of write to the store, on one conversation: the session
\* created and deleted, messages appended, summaries written directly and
\* by compaction.
NextLog ==
    \/ OpenConversation
    \/ AddMessage
    \/ UpdateSummary
    \/ SummarizeOldMessages
    \/ DeleteSession
SpecLog == InitStore /\ [][NextLog]_vars

\* The store as constructed, under the settings given.
StartWith(max_recent, threshold) ==
    /\ sessions = [s \in {} |-> None]
    /\ messages = <<>>
    /\ seq = 0
    /\ issued = 0
    /\ clock = 0
    /\ max_recent_messages = max_recent
    /\ summarize_threshold = threshold
    /\ ret = [op |-> "start"]
    /\ calls = <<>>

\* The window below the threshold by more than one, as the defaults 10 and
\* 20 are: MAX_RECENT_MESSAGES = 1, SUMMARIZE_THRESHOLD = 3.
InitWindowGap == StartWith(1, 3)

\* The smallest window and threshold: MAX_RECENT_MESSAGES = 1,
\* SUMMARIZE_THRESHOLD = 2, so that a compacted conversation can still grow.
InitNarrowWindow == StartWith(1, 2)

\* Context windows built, one call at a time, as a conversation grows.
NextWindow ==
    \/ OpenConversation
    \/ AddMessage
    \/ BuildPromptMessages
SpecWindowGap == InitWindowGap /\ [][NextWindow]_vars

\* One conversation appended to by concurrent requests, and read.
NextAppends ==
    \/ OpenConversation
    \/ AddMessageCall
    \/ AddMessageCommit
    \/ GetMessages
SpecAppends == InitStore /\ [][NextAppends]_vars

\* Context windows built by concurrent requests on one conversation.  The
\* program takes its own steps when it can (the event loop resumes a request
\* that is ready); nothing obliges the Summarizer to answer, and nothing
\* obliges a caller to make a request.
NextCompaction ==
    \/ OpenConversation
    \/ AddMessage
    \/ BuildCall
    \/ SummarizerReturns
    \/ BuildFinish
SpecCompaction ==
    InitStore /\ [][NextCompaction]_vars /\ WF_vars(BuildFinish)

\* Context windows built by concurrent requests while the user's messages
\* are appended.
NextRacingCompactions ==
    \/ OpenConversation
    \/ AddUserMessage
    \/ BuildCall
    \/ SummarizerReturns
    \/ BuildFinish
SpecRacingCompactions == InitStore /\ [][NextRacingCompactions]_vars

\* A conversation appended to (the human message of save_conversation_turn
\* is a commit of its own) while build_prompt_messages calls are in flight.
SpecWindowRace == InitNarrowWindow /\ [][NextRacingCompactions]_vars

\* MemoryManager on one conversation: turns recorded, context windows built,
\* the session deleted.
NextMemory ==
    \/ OpenConversation
    \/ SaveConversationTurn
    \/ BuildPromptMessages
    \/ SummarizeOldMessages
    \/ DeleteSession
SpecMemory == Init /\ [][NextMemory]_vars

\* Whole turns of one conversation.
Turn == GenerateResponse /\ issued' <= 1
NextTurn == Turn \/ DeleteSession
SpecTurn == Init /\ [][NextTurn]_vars

\* Turns only: no session is ever deleted.
SpecTurns == Init /\ [][Turn]_vars

\* Turns with media: generate_response, then the image and audio branches.
NextMedia == Turn \/ GatherMedia
SpecMedia == InitStore /\ [][NextMedia]_vars

\* Turns made as concurrent requests; no session is deleted.
NextConcurrentTurns ==
    TurnResolve \/ TurnBuild \/ TurnSaveHuman \/ TurnSaveAi
SpecConcurrentTurns == Init /\ [][NextConcurrentTurns]_vars

\* Turns made as concurrent requests, and sessions deleted meanwhile.
NextTurnsAndDeletes ==
    TurnResolve \/ TurnBuild \/ TurnSaveHuman \/ TurnSaveAi \/ DeleteSession
SpecTurnsAndDeletes == Init /\ [][NextTurnsAndDeletes]_vars


(***************************************************************************)
(* Properties of SessionManager.                                           *)
(***************************************************************************)
\* C1: after N add_message calls on a session, get_messages returns exactly
\* those N messages in the order they were appended, and get_messages with
\* limit = k (0 < k <= N) returns the last k of them, in that same order.
\* The order of appending is the order of the rows of table messages.
C1_AppendOrder ==
    ret.op = "get_messages" =>
        LET log == MessageInfos(RowsOf(DB, ret.session_id))
            N == Len(log)
        IN  /\ ret.limit = None => ret.result = log
            /\ (ret.limit # None /\ 0 < ret.limit[1] /\ ret.limit[1] <= N) =>
                   ret.result = SubSeq(log, N - ret.limit[1] + 1, N)

\* C2: delete_session(id) returns True exactly when the session existed;
\* after it session_exists(id) is false and get_messages(id) returns no
\* message; called again straight after a call that returned True, it
\* returns False.
C2_DeleteSession ==
    [][ret'.op = "delete_session" =>
          LET id == ret'.session_id
          IN  /\ ret'.deleted = session_exists(DB, id)
              /\ ~session_exists(DB', id)
              /\ get_messages(DB', id, None, 0) = {<<>>}
              /\ ret'.again => ~ret'.deleted]_vars

\* A session that had been given messages was deleted (True), and deleted
\* again (False).
C2_Witness ==
    /\ ret.op = "delete_session"
    /\ ret.again
    /\ ~ret.deleted
    /\ seq > 0
    /\ messages = <<>>

\* C3: get_or_create_session(id) with the id of an existing session returns
\* that id and creates no session; with any other argument (None, an empty
\* string, a malformed id, the id of a deleted session) it returns an id
\* that differs from the argument, did not exist before the call and exists
\* after it, and no other session is created.
C3_GetOrCreateSession ==
    [][ret'.op = "get_or_create_session" =>
          LET arg == ret'.arg
              id == ret'.session_id
          IN  IF arg # None /\ session_exists(DB, arg[1])
              THEN id = arg[1] /\ sessions' = sessions
              ELSE /\ arg # None => id # arg[1]
                   /\ ~session_exists(DB, id)
                   /\ session_exists(DB', id)
                   /\ DOMAIN sessions' = DOMAIN sessions \cup {id}]_vars

\* The id of a deleted session was passed, and a new session came back.
C3_Witness ==
    /\ ret.op = "get_or_create_session"
    /\ ret.arg # None
    /\ ret.arg[1] \in IssuedIds
    /\ ~session_exists(DB, ret.arg[1])
    /\ ret.session_id # ret.arg[1]
    /\ session_exists(DB, ret.session_id)

\* C13: list_sessions returns every existing session exactly once, ordered
\* by descending coalesce(last_message_at, created_at); in particular a
\* session created later and messaged once is listed before a session
\* created earlier and never messaged.
C13_ListingOrder ==
    ret.op = "list_sessions" =>
        LET L == ret.result
            key(r) == IF r.last_message_at = None
                      THEN r.created_at ELSE r.last_message_at[1]
        IN  /\ Len(L) = Cardinality(DOMAIN sessions)
            /\ {L[i].session_id : i \in 1..Len(L)} = DOMAIN sessions
            /\ \A i, j \in 1..Len(L) : i < j => key(L[i]) >= key(L[j])
            /\ \A i, j \in 1..Len(L) :
                   (/\ \E m, n \in 1..issued :
                          /\ m < n
                          /\ L[j].session_id = uuid4(m)
                          /\ L[i].session_id = uuid4(n)
                    /\ L[i].message_count = 1
                    /\ L[j].message_count = 0) => i < j

\* C13, amended: list_sessions returns every existing session exactly once,
\* each with its columns and message count, ordered by descending
\* coalesce(last_message_at, created_at); in particular a session whose
\* last message was appended at a later clock reading than that at which a
\* never-messaged session was created is listed before it.
C13_ListingOrderByActivity ==
    ret.op = "list_sessions" =>
        LET L == ret.result
            key(r) == IF r.last_message_at = None
                      THEN r.created_at ELSE r.last_message_at[1]
        IN  /\ Len(L) = Cardinality(DOMAIN sessions)
            /\ {L[i].session_id : i \in 1..Len(L)} = DOMAIN sessions
            /\ \A i \in 1..Len(L) :
                   /\ L[i].created_at = sessions[L[i].session_id].created_at
                   /\ L[i].last_message_at =
                          sessions[L[i].session_id].last_message_at
                   /\ L[i].message_count =
                          get_message_count(DB, L[i].session_id)
            /\ \A i, j \in 1..Len(L) : i < j => key(L[i]) >= key(L[j])
            /\ \A i, j \in 1..Len(L) :
                   (/\ L[i].last_message_at # None
                    /\ L[j].last_message_at = None
                    /\ L[i].last_message_at[1] > L[j].created_at) => i < j

\* Session 1 was created and never messaged, session 2 was created after it
\* and messaged once at a later clock reading; the listing is <<2, 1>>.
C13_Witness ==
    /\ ret.op = "list_sessions"
    /\ Len(ret.result) = 2
    /\ ret.result[1].session_id = uuid4(2)
    /\ ret.result[1].message_count = 1
    /\ ret.result[2].session_id = uuid4(1)
    /\ ret.result[2].message_count = 0
    /\ ret.result[1].last_message_at[1] > ret.result[2].created_at

\* C15: update_summary(id, text) on an id with no session fails with a
\* NotFound error and leaves the store unchanged.
C15_UpdateSummaryNotFound ==
    [][(/\ ret'.op = "update_summary"
        /\ ~session_exists(DB, ret'.session_id)) =>
           /\ ret'.error = Some("NotFound")
           /\ DB' = DB]_vars

\* C16: only create_session adds a session: add_message, update_summary,
\* build_prompt_messages, save_conversation_turn and delete_session add no
\* session, and applied to an id with no session they leave session_exists
\* of that id false and the set of sessions as it was.
C16_OnlyCreateAddsSession ==
    [][ret'.op \in {"add_message", "update_summary", "build_prompt_messages",
                    "save_conversation_turn", "delete_session"} =>
           /\ DOMAIN sessions' \subseteq DOMAIN sessions
           /\ ~session_exists(DB, ret'.session_id) =>
                  /\ ~session_exists(DB', ret'.session_id)
                  /\ sessions' = sessions]_vars

\* A message appended by add_message under the id of a deleted session, which
\* is still no session afterwards.
C16_Witness ==
    /\ ret.op = "add_message"
    /\ ~session_exists(DB, ret.session_id)
    /\ RowsOf(DB, ret.session_id) # <<>>

C26_AppendOnly ==
    [][/\ IF ret'.op = "delete_session"
          THEN messages' =
                   SelectSeq(messages,
                             LAMBDA m : m.session_id # ret'.session_id)
          ELSE /\ Len(messages') >= Len(messages)
               /\ SubSeq(messages', 1, Len(messages)) = messages
       /\ \A id \in DOMAIN sessions :
              IF id \in DOMAIN sessions'
              THEN sessions'[id].created_at = sessions[id].created_at
              ELSE ret'.op = "delete_session" /\ ret'.session_id = id
       /\ ret'.op = "summarize_old_messages" => messages' = messages
       /\ \A i \in 1..Len(messages') :
              \A result \in get_messages(DB', messages'[i].session_id, None, 0) :
                  \E p \in 1..Len(result) :
                      result[p] = MessageInfo(messages'[i])]_vars

\* A compaction in which the Summarizer answered: the summary is stored and
\* the session still has all its messages, the summarized ones included.
C26_Witness ==
    /\ ret.op = "summarize_old_messages"
    /\ ret.summarizer = "answered"
    /\ get_summary(DB, ret.session_id) = ret.result
    /\ get_message_count(DB, ret.session_id) = MaxMessages

(***************************************************************************)
(* Properties of MemoryManager.                                            *)
(***************************************************************************)
\* C4: every build_prompt_messages call made while the session's message
\* count is at least summarize_threshold returns a sequence that begins
\* with a summary system entry with non-empty text, before the messages of
\* the recent window.
C4_SummaryWhenOverThreshold ==
    (/\ ret.op = "build_prompt_messages"
     /\ get_message_count(DB, ret.session_id) >= summarize_threshold) =>
        /\ ret.messages[1].type = "system"
        /\ ret.messages[1].content # SummaryHeader

\* C4, amended: every build_prompt_messages call on an existing session made
\* while its message count is at least summarize_threshold and greater than
\* max_recent_messages invokes the Summarizer, and when the Summarizer
\* answers with non-empty text the returned sequence begins with the one
\* summary system entry, which carries that text, before the messages of
\* the recent window.
C4_SummaryWhenCompacted ==
    (/\ ret.op = "build_prompt_messages"
     /\ session_exists(DB, ret.session_id)
     /\ get_message_count(DB, ret.session_id) >= summarize_threshold
     /\ get_message_count(DB, ret.session_id) > max_recent_messages) =>
        /\ ret.summarizer # "not_called"
        /\ (ret.summarizer = "answered" /\ ret.answer[1] # "") =>
               /\ ret.messages[1] = SystemMessage(SummaryHeader \o ret.answer[1])
               /\ \A i \in 2..Len(ret.messages) :
                      ret.messages[i].type # "system"

\* An over-threshold call in which the Summarizer answered with text.
C4_Witness ==
    /\ ret.op = "build_prompt_messages"
    /\ session_exists(DB, ret.session_id)
    /\ get_message_count(DB, ret.session_id) >= summarize_threshold
    /\ ret.summarizer = "answered"
    /\ ret.answer[1] # ""
    /\ ret.messages[1].type = "system"

\* C5: a build_prompt_messages call made while the session's message count
\* n is below max_recent_messages returns no summary entry: the result is
\* the n stored messages in the order they were appended, followed by the
\* new user message (n + 1 entries).
C5_ShortSessionVerbatim ==
    (/\ ret.op = "build_prompt_messages"
     /\ get_message_count(DB, ret.session_id) < max_recent_messages) =>
        LET log == MessageInfos(RowsOf(DB, ret.session_id))
        IN  ret.messages =
                [i \in 1..Len(log) |-> PromptMessage(log[i])]
                    \o <<HumanMessage(ret.new_message)>>

\* C6: with summarize_threshold >= max_recent_messages and a Summarizer
\* that answers with non-empty text, build_prompt_messages on a session
\* whose message count is at least summarize_threshold and greater than
\* max_recent_messages returns exactly max_recent_messages + 2 entries: the
\* summary entry, the last max_recent_messages stored messages oldest first,
\* and the new user message.
C6_SummaryAndWindow ==
    (/\ ret.op = "build_prompt_messages"
     /\ session_exists(DB, ret.session_id)
     /\ summarize_threshold >= max_recent_messages
     /\ get_message_count(DB, ret.session_id) >= summarize_threshold
     /\ get_message_count(DB, ret.session_id) > max_recent_messages
     /\ ret.summarizer = "answered"
     /\ ret.answer[1] # "") =>
        LET log == MessageInfos(RowsOf(DB, ret.session_id))
            N == Len(log)
        IN  ret.messages =
                <<SystemMessage(SummaryHeader \o ret.answer[1])>>
                    \o [i \in 1..max_recent_messages |->
                           PromptMessage(log[N - max_recent_messages + i])]
                    \o <<HumanMessage(ret.new_message)>>

\* C7: a build_prompt_messages call in which the Summarizer fails returns
\* its result all the same (the window ending with the new user message,
\* led by the summary entry exactly when a non-empty summary was stored
\* before), and leaves the stored summary, as every other stored value, as
\* it was before the call.
C7_SummarizerFailure ==
    [][(ret'.op = "build_prompt_messages" /\ ret'.summarizer = "raised") =>
          /\ sessions' = sessions
          /\ messages' = messages
          /\ ret'.messages[Len(ret'.messages)] = HumanMessage(ret'.new_message)
          /\ (ret'.messages[1].type = "system") =
                 Truthy(get_summary(DB, ret'.session_id))]_vars

\* The Summarizer failed on a session that had a summary stored.
C7_Witness ==
    /\ ret.op = "build_prompt_messages"
    /\ ret.summarizer = "raised"
    /\ Truthy(get_summary(DB, ret.session_id))
    /\ ret.messages[1].content =
           SummaryHeader \o get_summary(DB, ret.session_id)[1]

\* C8: with a deterministic Summarizer (the same prompt gets the same
\* answer), running summarize_old_messages twice in succession on the same
\* session, no message appended in between, leaves the same stored summary
\* as running it once.  The case taken is the one where the query for the
\* old messages has a single possible answer and the first run stored a
\* non-empty summary.
C8_CompactionIdempotent ==
    [][(/\ ret.op = "summarize_old_messages"
        /\ ret'.op = "summarize_old_messages"
        /\ ret'.session_id = ret.session_id
        /\ Cardinality(get_old_messages_for_summary(
                           DB, ret.session_id, max_recent_messages)) = 1
        /\ ret.summarizer = "answered"
        /\ ret.result[1] # ""
        /\ ret'.summarizer = "answered"
        /\ (ret'.prompt = ret.prompt => ret'.result = ret.result)) =>
          get_summary(DB', ret.session_id) = get_summary(DB, ret.session_id)]_vars

\* C9: save_conversation_turn leaves the session with either both messages
\* of the turn or neither, also when the store fails between the two
\* appends.
C9_TurnAtomic ==
    [][ret'.op = "save_conversation_turn" =>
          get_message_count(DB', ret'.session_id)
              - get_message_count(DB, ret'.session_id) \in {0, 2}]_vars

\* C14: compaction runs exactly once per threshold crossing: over any
\* sequence of build_prompt_messages calls on a session, the Summarizer is
\* invoked once for each passage of the message count from below
\* summarize_threshold to at or above it.  Between two successive calls on
\* the same session with no message appended or deleted in between there is
\* no passage, so the Summarizer, having answered in the first, is not
\* invoked in the second.
C14_OncePerCrossing ==
    [][(/\ ret.op = "build_prompt_messages"
        /\ ret.summarizer = "answered"
        /\ ret'.op = "build_prompt_messages"
        /\ ret'.session_id = ret.session_id
        /\ messages' = messages) =>
           ret'.summarizer = "not_called"]_vars

\* C14, amended: compaction is recomputed in every call made at or over the
\* threshold: a build_prompt_messages call invokes the Summarizer (once, in
\* that call) exactly when the session's message count is at least
\* summarize_threshold and greater than max_recent_messages, whatever
\* earlier calls did and whether or not a summary is already stored.
C14_EveryCallOverThreshold ==
    ret.op = "build_prompt_messages" =>
        (ret.summarizer # "not_called" <=>
            /\ get_message_count(DB, ret.session_id) >= summarize_threshold
            /\ get_message_count(DB, ret.session_id) > max_recent_messages)

\* A call that invoked the Summarizer, which raised, on a session that
\* already had a summary from an earlier invocation.
C14_Witness ==
    /\ ret.op = "build_prompt_messages"
    /\ ret.summarizer = "raised"
    /\ session_exists(DB, ret.session_id)
    /\ Truthy(get_summary(DB, ret.session_id))

\* C21: when a session's message count minus max_recent_messages is at most
\* 0, summarize_old_messages does not invoke the Summarizer, writes nothing,
\* and returns the summary that was stored.
C21_NothingToRetire ==
    [][(/\ ret'.op = "summarize_old_messages"
        /\ get_message_count(DB, ret'.session_id) - max_recent_messages <= 0) =>
           /\ ret'.summarizer = "not_called"
           /\ DB' = DB
           /\ ret'.result = get_summary(DB, ret'.session_id)]_vars

\* summarize_old_messages on a session that holds messages, none of them
\* old, and a summary: the summary came back.
C21_Witness ==
    /\ ret.op = "summarize_old_messages"
    /\ get_message_count(DB, ret.session_id) > 0
    /\ get_message_count(DB, ret.session_id) <= max_recent_messages
    /\ ret.result \in {Some("sumA"), Some("sumB")}
    /\ ret.result = get_summary(DB, ret.session_id)

\* C22: whenever summarize_threshold >= max_recent_messages and a session's
\* message count is at least summarize_threshold, the compaction that
\* build_prompt_messages triggers has at least one message to retire: the
\* count exceeds max_recent_messages, old_count > 0, and the Summarizer is
\* invoked.
C22_SomethingToRetire ==
    (/\ ret.op = "build_prompt_messages"
     /\ summarize_threshold >= max_recent_messages
     /\ get_message_count(DB, ret.session_id) >= summarize_threshold) =>
        /\ get_message_count(DB, ret.session_id) > max_recent_messages
        /\ \A old \in get_old_messages_for_summary(
                          DB, ret.session_id, max_recent_messages) :
               Len(old) > 0
        /\ ret.summarizer # "not_called"

\* C22, amended: whenever summarize_threshold > max_recent_messages and a
\* session's message count is at least summarize_threshold, the compaction
\* that build_prompt_messages triggers retires the count minus
\* max_recent_messages oldest messages, at least one, and the Summarizer is
\* invoked.
C22_SomethingToRetireStrict ==
    (/\ ret.op = "build_prompt_messages"
     /\ summarize_threshold > max_recent_messages
     /\ get_message_count(DB, ret.session_id) >= summarize_threshold) =>
        /\ get_message_count(DB, ret.session_id) > max_recent_messages
        /\ \A old \in get_old_messages_for_summary(
                          DB, ret.session_id, max_recent_messages) :
               /\ Len(old) > 0
               /\ Len(old) = get_message_count(DB, ret.session_id)
                                 - max_recent_messages
        /\ ret.summarizer # "not_called"

\* A call at the threshold, the threshold above the window: the Summarizer
\* was invoked on the one old message.
C22_Witness ==
    /\ ret.op = "build_prompt_messages"
    /\ summarize_threshold > max_recent_messages
    /\ get_message_count(DB, ret.session_id) = summarize_threshold
    /\ ret.summarizer \in {"answered", "raised"}

\* C28: with a Summarizer that succeeds and calls made one at a time, every
\* stored message of the session is represented in the result of
\* build_prompt_messages: it is an entry of the recent window, or it is one
\* of the retired messages of a successful compaction whose summary entry
\* is in the result.  Message texts are distinct, so a text names its row;
\* retired is taken as generously as the store allows: a message counts as
\* retired when some list get_old_messages_for_summary may return has it.
C28_EveryMessageRepresented ==
    (ret.op = "build_prompt_messages" /\ ret.summarizer # "raised") =>
        LET rows == RowsOf(DB, ret.session_id)
            window == {ret.messages[p].content :
                          p \in {q \in 1..Len(ret.messages) :
                                    ret.messages[q].type # "system"}}
            retired == UNION {{old[q].content : q \in 1..Len(old)} :
                                 old \in get_old_messages_for_summary(
                                             DB, ret.session_id,
                                             max_recent_messages)}
        IN  \A i \in 1..Len(rows) :
                \/ rows[i].content \in window
                \/ /\ ret.summarizer = "answered"
                   /\ ret.messages[1].type = "system"
                   /\ rows[i].content \in retired

\* C29: in a build_prompt_messages call whose compaction succeeded, at the
\* moment the window has been read, the retired messages handed to the
\* Summarizer and the recent window of the result share no message and
\* together are the whole log of the session, whatever was committed to the
\* session while the call was in flight.
C29_RetiredAndWindowPartition ==
    (/\ ret.op = "await"
     /\ calls[ret.call].op = "build_prompt_messages"
     /\ calls[ret.call].pc = "returned"
     /\ calls[ret.call].summarizer = "answered") =>
        LET call == calls[ret.call]
            rows == RowsOf(DB, call.session_id)
            log == {rows[i].content : i \in 1..Len(rows)}
            retired == {call.old_messages[i].content :
                           i \in 1..Len(call.old_messages)}
            window == {call.messages[p].content :
                          p \in {q \in 1..Len(call.messages) - 1 :
                                    call.messages[q].type # "system"}}
        IN  /\ retired \cap window = {}
            /\ retired \cup window = log

\* C30: get_messages(session_id, limit=k) returns at most k messages for
\* every integer k >= 0; with limit=0 it returns none.
C30_AtMostLimit ==
    (ret.op = "get_messages" /\ ret.limit # None) =>
        Len(ret.result) <= ret.limit[1]

(***************************************************************************)
(* Properties of generate_response.                                        *)
(***************************************************************************)
\* C10: a generate_response call whose model call fails does not raise, adds
\* no message to any session, and returns the static fallback response
\* carrying the turn's session id: the id passed when its session existed,
\* else the id of the one session the call created.
C10_ModelFailure ==
    [][(ret'.op = "generate_response" /\ ret'.failure = "model") =>
          LET arg == ret'.arg
              sid == ret'.response.session_id
          IN  /\ ~ret'.raised
              /\ messages' = messages
              /\ ret'.response =
                     [response |-> "fallback", emotion_tag |-> Some("neutral"),
                      saturation_tag |-> Some("0.1"), session_id |-> sid]
              /\ IF arg # None /\ session_exists(DB, arg[1])
                 THEN sid = arg[1] /\ DOMAIN sessions' = DOMAIN sessions
                 ELSE /\ ~session_exists(DB, sid)
                      /\ DOMAIN sessions' = DOMAIN sessions \cup {sid}]_vars

\* The model call failed in a session that already held a recorded turn.
C10_Witness ==
    /\ ret.op = "generate_response"
    /\ ret.failure = "model"
    /\ ret.arg = Some(ret.response.session_id)
    /\ get_message_count(DB, ret.response.session_id) >= 2

\* C17: when no session is deleted and the store does not fail, every
\* generate_response call returns a response carrying a session id whose
\* session exists, whether the knowledge lookup, the compaction and the model
\* call succeed or fail, and whether the caller passed no id, the id of a
\* session or an id of none.
C17_ResponseWithValidSession ==
    (/\ ret.op = "generate_response"
     /\ ret.failure \in {"none", "knowledge", "model"}) =>
        /\ ~ret.raised
        /\ ret.response.response # ""
        /\ session_exists(DB, ret.response.session_id)

\* The model call failed in a turn whose caller passed an id of no session.
C17_Witness ==
    /\ ret.op = "generate_response"
    /\ ret.failure = "model"
    /\ ret.arg = Some("invalid-session-id")
    /\ ~ret.raised
    /\ session_exists(DB, ret.response.session_id)

\* C27: in generate_response_with_media the image branch and the audio
\* branch fail independently: a branch that raised or whose server was
\* unavailable yields no result for that branch only; the other branch's
\* result is returned as if the first had succeeded; and the chat response
\* with its session id is returned whichever branches fail.
C27_MediaBranchesIndependent ==
    ret.op = "generate_response_with_media" =>
        /\ ret.result.response = ret.base.response
        /\ ret.result.emotion_tag = ret.base.emotion_tag
        /\ ret.result.saturation_tag = ret.base.saturation_tag
        /\ ret.result.session_id = ret.base.session_id
        /\ ret.result.image # None <=>
               (ret.enable_image /\ ret.image_outcome = "done")
        /\ ret.result.audio # None <=>
               (ret.enable_audio /\ ret.audio_outcome = "done")

\* The image branch raised, the audio branch made its file, and the reply
\* came back with both outcomes.
C27_Witness ==
    /\ ret.op = "generate_response_with_media"
    /\ ret.enable_image
    /\ ret.image_outcome = "raised"
    /\ ret.result.image = None
    /\ ret.result.audio # None
    /\ ret.result.response = ret.base.response

(***************************************************************************)
(* Properties under concurrent requests.                                   *)
(***************************************************************************)
\* C11: in every reachable state, however turns (session resolution, context
\* window, the two appends of the turn) and delete_session calls interleave,
\* every stored message's session_id is the id of an existing session.
C11_NoOrphanMessages ==
    \A i \in 1..Len(messages) : session_exists(DB, messages[i].session_id)

\* C12: when two delete_session calls on the same session are in flight
\* together, the session existing when each was made and no third delete of
\* it around, the one whose transaction runs second returns the opposite of
\* what the first returned (one True, one False), and after it neither the
\* session row nor any message of the session remains.
C12_ConcurrentDeletes ==
    [][\A c, d \in 1..Len(calls) :
          (/\ c # d
           /\ calls[c].op = "delete_session"
           /\ calls[d].op = "delete_session"
           /\ calls[c].session_id = calls[d].session_id
           /\ c \in calls[d].during \/ d \in calls[c].during
           /\ calls[c].existed
           /\ calls[d].existed
           /\ \A e \in 1..Len(calls) \ {c, d} :
                  ~(/\ calls[e].op = "delete_session"
                    /\ calls[e].session_id = calls[c].session_id)
           /\ calls[d].pc = "returned"
           /\ calls[c].pc = "called"
           /\ calls'[c].pc = "returned") =>
              /\ calls'[c].deleted # calls[d].deleted
              /\ ~session_exists(DB', calls[c].session_id)
              /\ RowsOf(DB', calls[c].session_id) = <<>>]_vars

\* Two deletes of one session that held a message were in flight together:
\* the first to run returned True, the second False.
C12_Witness ==
    /\ Len(calls) = 2
    /\ calls[1].op = "delete_session"
    /\ calls[2].op = "delete_session"
    /\ calls[1].session_id = calls[2].session_id
    /\ 1 \in calls[2].during
    /\ calls[2].existed
    /\ calls[1].pc = "returned"
    /\ calls[2].pc = "returned"
    /\ calls[2].deleted
    /\ ~calls[1].deleted
    /\ seq > 0
    /\ RowsOf(DB, calls[1].session_id) = <<>>

\* C18: a build_prompt_messages call suspended on the Summarizer eventually
\* completes even if the Summarizer never returns: a turn cannot hang for
\* ever on compaction.
C18_CompactionTimeBounded ==
    \A c \in 1..MaxCalls :
        (c <= Len(calls) /\ calls[c].pc = "summarizing")
            ~> (c <= Len(calls) /\ calls[c].pc = "returned")

\* C19: get_messages orders a session's messages by insertion (rowid) order
\* and not by timestamp alone: of two returned messages the one inserted
\* earlier comes first, also when their created_at are equal and when
\* concurrent add_message calls were inserted in the opposite order to the
\* timestamps they took; and with limit = k the messages returned are the k
\* inserted last.  Message texts are distinct, so a text names its row.
C19_InsertionOrder ==
    ret.op = "get_messages" =>
        LET rows == RowsOf(DB, ret.session_id)
            N == Len(rows)
            returned == {ret.result[p].content : p \in 1..Len(ret.result)}
            Pos(content) == CHOOSE p \in 1..Len(ret.result) :
                                ret.result[p].content = content
        IN  /\ \A i, j \in 1..N :
                   (/\ i < j
                    /\ rows[i].content \in returned
                    /\ rows[j].content \in returned) =>
                       Pos(rows[i].content) < Pos(rows[j].content)
            /\ (ret.limit # None /\ ret.limit[1] > 0) =>
                   returned = {rows[i].content :
                                   i \in {n \in 1..N : n > N - ret.limit[1]}}

\* C23: two build_prompt_messages calls compacting the same session at the
\* same time: neither raises; each calls the Summarizer with text made from
\* the messages and the summary it read from the store; the call whose
\* Summarizer returns later overwrites the summary with its answer (and
\* leaves it alone when its Summarizer raised); and once both Summarizer
\* calls have returned, the stored summary is the answer given to one of
\* the two, or the one stored before when neither answered.
C23_LastWriterWins ==
    [][/\ \A c \in 1..Len(calls') :
              (/\ calls'[c].op = "build_prompt_messages"
               /\ c > Len(calls)) =>
                  \/ calls'[c].prompt = None
                  \/ \E old \in get_old_messages_for_summary(
                                    DB, calls'[c].session_id,
                                    max_recent_messages) :
                         calls'[c].prompt =
                             Some(format_messages_for_summary(
                                      old, get_summary(DB, calls'[c].session_id)))
       /\ \A c, d \in 1..Len(calls) :
              (/\ c # d
               /\ calls[c].op = "build_prompt_messages"
               /\ calls[d].op = "build_prompt_messages"
               /\ calls[c].session_id = calls[d].session_id
               /\ c \in calls[d].during \/ d \in calls[c].during
               /\ calls[d].summarizer \in {"answered", "raised"}
               /\ calls[c].pc = "summarizing"
               /\ calls'[c].pc = "compacted") =>
                  LET id == calls[c].session_id
                  IN  /\ messages' = messages
                      /\ calls'[c].summarizer \in {"answered", "raised"}
                      /\ calls'[c].summarizer = "answered" =>
                             get_summary(DB', id) = calls'[c].answer
                      /\ calls'[c].summarizer = "raised" =>
                             get_summary(DB', id) = get_summary(DB, id)
                      /\ (Len(calls) = 2 /\ get_summary(DB', id) # None) =>
                             get_summary(DB', id)
                                 \in {calls'[c].answer, calls'[d].answer}]_vars

\* Both requests were suspended on the Summarizer together, both were
\* answered, with different texts on the same prompt, and the stored
\* summary is the answer given to the first request.
C23_Witness ==
    /\ Len(calls) = 2
    /\ calls[1].op = "build_prompt_messages"
    /\ calls[2].op = "build_prompt_messages"
    /\ 1 \in calls[2].during
    /\ calls[1].session_id = calls[2].session_id
    /\ calls[1].summarizer = "answered"
    /\ calls[2].summarizer = "answered"
    /\ calls[1].answer # calls[2].answer
    /\ calls[1].prompt = calls[2].prompt
    /\ get_summary(DB, calls[1].session_id) = calls[1].answer

\* C24: the save_conversation_turn calls of turns in flight together on one
\* session do not interleave in the log: the human message of a turn is
\* followed at once by the ai message of the same turn (or is the last row
\* while the turn has not yet recorded its reply), so the roles stored for
\* a session alternate human, ai.
C24_TurnsDoNotInterleave ==
    \A c \in 1..Len(calls) :
        calls[c].op = "generate_response" =>
            LET rows == RowsOf(DB, calls[c].session_id)
            IN  /\ \A i \in 1..Len(rows) :
                       rows[i].content = CallPayload(c, "human") =>
                           \/ i = Len(rows)
                           \/ rows[i + 1].content = CallPayload(c, "ai")
                /\ \A i \in 1..Len(rows) :
                       rows[i].role = IF i % 2 = 1 THEN "human" ELSE "ai"

\* C25: an existing session's last_message_at is null exactly when the
\* session has no message; otherwise it is the created_at of the message
\* inserted last, and no step decreases it, also when add_message calls on
\* the session run concurrently.
C25_LastMessageAt ==
    [][\A id \in DOMAIN sessions' :
           LET rows == RowsOf(DB', id)
               last == sessions'[id].last_message_at
           IN  /\ last = None <=> rows = <<>>
               /\ rows # <<>> => last = Some(rows[Len(rows)].created_at)
               /\ (id \in DOMAIN sessions
                     /\ sessions[id].last_message_at # None) =>
                      /\ last # None
                      /\ last[1] >= sessions[id].last_message_at[1]]_vars

=============================================================================
